---------------------------- MODULE Spec2Model ----------------------------
(***************************************************************************)
(* xdg-desktop-portal-rs: the client binding of the D-Bus portal interface *)
(* org.freedesktop.portal.OpenURI.                                         *)
(*                                                                         *)
(*   src/src/open_uri.rs  the binding (OpenURIOptions, its conversion to a *)
(*                        PropMap, the OpenURI trait over blocking::Proxy) *)
(*   src/src/lib.rs       new_blocking and PortalError                     *)
(*   src/src/openuri.rs   the earlier revision of the binding, which       *)
(*                        returns dbus::Error unwrapped                    *)
(*                                                                         *)
(* One caller thread builds options, constructs proxies and invokes the    *)
(* trait methods; each invocation blocks in the transport until the        *)
(* transport hands back a reply or an error.  Both revisions of the        *)
(* binding run side by side against the same caller and the same replies.  *)
(***************************************************************************)
EXTENDS Integers, Sequences, FiniteSets, TLC

VARIABLES
  features,   \* build configuration: which of spec-v3 / spec-v4 are enabled
  options,    \* the OpenURIOptions the caller is building (open_uri.rs)
  options0,   \* the same builder in the revision of openuri.rs
  hist,       \* for each setter called on the builder since new(): the
              \* argument of its first call and of its last call
  map,        \* the PropMap converted from the builder, once converted
  map0,       \* the same, revision of openuri.rs
  proxy,      \* the blocking::Proxy the caller holds, once constructed
  supplied,   \* the timeout and connection the caller gave new_blocking
  pc,         \* the caller thread: "idle", "waiting" (blocked) or "returned"
  args,       \* the arguments of the trait method being invoked
  issued,     \* the transport requests the invocation has issued (open_uri.rs)
  issued0,    \* the same, revision of openuri.rs
  inflight,   \* requests on the channel that the transport has not answered
  remaining,  \* time left before the transport gives up on the request
  reply,      \* what the transport handed back to the invocation
  result,     \* what the trait method returned (open_uri.rs)
  result0,    \* what the trait method returned (openuri.rs)
  portal,     \* the request object the returned handle names: "none",
              \* "registered" (replied, not completed) or "completed"
  ncalls,     \* trait method invocations so far
  nsent       \* transport requests sent so far

vars == <<features, options, options0, hist, map, map0, proxy, supplied, pc,
          args, issued, issued0, inflight, remaining, reply, result, result0,
          portal, ncalls, nsent>>

builder == <<options, options0, hist, map, map0>>
calling == <<pc, args, issued, issued0, inflight, remaining, reply, result,
             result0, portal, ncalls, nsent>>

---------------------------------------------------------------------------
(* Bounds of the model. *)

MaxCalls == 2     \* trait method invocations in one run
MaxTimeout == 1   \* the largest timeout a caller gives, in ticks

(* Input values. *)

Tokens == {"t1", "t2"}
ParentWindows == {"", "x11:1a"}
Uris == {"https://example.com", "file:///etc/hosts"}
Fds == {"fd:3", "fd:4"}   \* file descriptors, named by their number
Paths == {"/org/freedesktop/portal/desktop/request/1_42/t1",
          "/org/freedesktop/portal/desktop/request/1_42/t2"}
Versions == {1, 4}
Connections == {"session", "private"}
Timeouts == 0 .. MaxTimeout

(* The errors a transport hands back: the connection closed, a reply of the *)
(* wrong shape, an error named by the remote side, and the timeout.          *)
TimeoutError == "org.freedesktop.DBus.Error.NoReply"
Errors == {"org.freedesktop.DBus.Error.Disconnected",
           "org.freedesktop.DBus.Error.InvalidArgs",
           "org.freedesktop.portal.Error.NotAllowed",
           TimeoutError}

---------------------------------------------------------------------------
(* Option<T> and Result<T, E>. *)

None == <<>>
Some(v) == <<v>>
IsSome(o) == o # <<>>
Unwrap(o) == o[1]

Ok(v) == [tag |-> "Ok", value |-> v]
Err(e) == [tag |-> "Err", error |-> e]
IsOk(r) == r.tag = "Ok"
IsErr(r) == r.tag = "Err"


---------------------------------------------------------------------------
(* src/src/lib.rs *)

(* PortalError::Dbus(#[from] dbus::Error): the From conversion Into::into uses. *)
PortalErrorDbus(e) == [variant |-> "Dbus", source |-> e]

(* .map_err(Into::into) *)
map_err_into(r) == IF IsErr(r) THEN Err(PortalErrorDbus(r.error)) ELSE r

(* Fault variants of new_blocking: a fixed timeout in place of the caller's, *)
(* and a misspelt object path.                                              *)
new_blocking_default(timeout, connection) ==
  [destination |-> "org.freedesktop.portal.Desktop",
   path |-> "/org/freedesktop/portal/desktop",
   timeout |-> MaxTimeout + 1,
   connection |-> connection]

new_blocking_wrong_path(timeout, connection) ==
  [destination |-> "org.freedesktop.portal.Desktop",
   path |-> "/org/freedesktop/portal/Desktop",
   timeout |-> timeout,
   connection |-> connection]

new_blocking(timeout, connection) ==
  [destination |-> "org.freedesktop.portal.Desktop",
   path |-> "/org/freedesktop/portal/desktop",
   timeout |-> timeout,
   connection |-> connection]

---------------------------------------------------------------------------
(* src/src/open_uri.rs: OpenURIOptions and its conversion to a PropMap *)

INTERFACE == "org.freedesktop.portal.OpenURI"

(* Variant(Box::new(v)): the value with its native D-Bus type. *)
VariantString(v) == [sig |-> "s", v |-> v]
VariantBool(v) == [sig |-> "b", v |-> v]

(* PropMap::new and HashMap::insert. *)
PropMapNew == [k \in {} |-> VariantBool(FALSE)]
Insert(m, key, value) ==
  [k \in DOMAIN m \cup {key} |-> IF k = key THEN value ELSE m[k]]

new ==
  [handle_token |-> None, writable |-> None, ask |-> None,
   activation_token |-> None]

handle_token(self, v) == [self EXCEPT !.handle_token = Some(v)]

(* Fault variant: the setter also resets a neighbouring field. *)
writable_clears_ask(self, v) ==
  [self EXCEPT !.writable = Some(v), !.ask = None]

writable(self, v) == [self EXCEPT !.writable = Some(v)]

(* Fault variant: the setter keeps the value of its first call. *)
ask_keeps_first(self, v) ==
  IF IsSome(self.ask) THEN self ELSE [self EXCEPT !.ask = Some(v)]

ask(self, v) == [self EXCEPT !.ask = Some(v)]

activation_token(self, v) == [self EXCEPT !.activation_token = Some(v)]

(* impl From<OpenURIOptions> for PropMap; f is the build configuration. *)
from_step1(o, m) ==
  IF IsSome(o.handle_token)
  THEN Insert(m, "handle_token", VariantString(Unwrap(o.handle_token)))
  ELSE m
from_step2(o, m) ==
  IF IsSome(o.writable)
  THEN Insert(m, "writable", VariantBool(Unwrap(o.writable)))
  ELSE m
from_step3(f, o, m) ==
  IF f.v3 /\ IsSome(o.ask)
  THEN Insert(m, "ask", VariantBool(Unwrap(o.ask)))
  ELSE m
from_step4(f, o, m) ==
  IF f.v4 /\ IsSome(o.activation_token)
  THEN Insert(m, "activation_token",
              VariantString(Unwrap(o.activation_token)))
  ELSE m

(* Fault variants of the conversion: writable sent with a default when *)
(* unset, and handle_token wrapped with the wrong type.                *)
from_writable_default(f, o) ==
  from_step4(f, o, from_step3(f, o,
    Insert(from_step1(o, PropMapNew), "writable",
           VariantBool(IF IsSome(o.writable) THEN Unwrap(o.writable)
                       ELSE FALSE))))

from_token_as_bool(f, o) ==
  from_step4(f, o, from_step3(f, o, from_step2(o,
    IF IsSome(o.handle_token)
    THEN Insert(PropMapNew, "handle_token",
                [sig |-> "b", v |-> Unwrap(o.handle_token)])
    ELSE PropMapNew)))

from(f, o) ==
  from_step4(f, o, from_step3(f, o, from_step2(o, from_step1(o, PropMapNew))))

---------------------------------------------------------------------------
(* src/src/open_uri.rs: impl OpenURI for blocking::Proxy *)

(* The request Proxy::method_call puts on the proxy's connection. *)
method_call(p, interface, member, a) ==
  [connection |-> p.connection, destination |-> p.destination,
   path |-> p.path, timeout |-> p.timeout, kind |-> "method_call",
   interface |-> interface, member |-> member, args |-> a]

(* The request Properties::get puts on the proxy's connection. *)
get(p, interface, property) ==
  [connection |-> p.connection, destination |-> p.destination,
   path |-> p.path, timeout |-> p.timeout, kind |-> "get",
   interface |-> interface, member |-> property, args |-> <<>>]

(* |r: (Path<'static>,)| Ok(r.0) *)
first(r) == Ok(r[1])

(* .and_then(|r: (Path<'static>,)| Ok(r.0)) *)
and_then_first(r) == IF IsOk(r) THEN first(r.value) ELSE r

(* Fault variant: a file:// uri is rewritten to its path on the client side. *)
open_uri_strips_scheme(f, self, parent_window, uri, o) ==
  method_call(self, INTERFACE, "OpenURI",
              <<parent_window,
                IF uri = "file:///etc/hosts" THEN "/etc/hosts" ELSE uri,
                from(f, o)>>)

open_uri(f, self, parent_window, uri, o) ==
  method_call(self, INTERFACE, "OpenURI", <<parent_window, uri, from(f, o)>>)

(* Fault variant: the proxy's own path is returned for the handle. *)
open_uri_result_proxy_path(r) ==
  map_err_into(IF IsOk(r) THEN Ok("/org/freedesktop/portal/desktop") ELSE r)

open_uri_result(r) == map_err_into(and_then_first(r))

open_file(f, self, parent_window, fd, o) ==
  method_call(self, INTERFACE, "OpenFile", <<parent_window, fd, from(f, o)>>)

open_file_result(r) == map_err_into(and_then_first(r))

open_directory(f, self, parent_window, fd, o) ==
  method_call(self, INTERFACE, "OpenDirectory",
              <<parent_window, fd, from(f, o)>>)

open_directory_result(r) == map_err_into(and_then_first(r))

version(self) == get(self, INTERFACE, "version")

(* Fault variant: a failed read is turned into version 0. *)
version_result_default(r) == IF IsErr(r) THEN Ok(0) ELSE r

version_result(r) == map_err_into(r)

---------------------------------------------------------------------------
(* src/src/openuri.rs: the earlier revision *)

OPENURI_INTERFACE == "org.freedesktop.portal.OpenURI"

openuri_new ==
  [handle_token |-> None, writable |-> None, ask |-> None,
   activation_token |-> None]

openuri_handle_token(self, v) == [self EXCEPT !.handle_token = Some(v)]
openuri_writable(self, v) == [self EXCEPT !.writable = Some(v)]
openuri_ask(self, v) == [self EXCEPT !.ask = Some(v)]
openuri_activation_token(self, v) ==
  [self EXCEPT !.activation_token = Some(v)]

openuri_from(f, o) ==
  LET m1 == IF IsSome(o.handle_token)
            THEN Insert(PropMapNew, "handle_token",
                        VariantString(Unwrap(o.handle_token)))
            ELSE PropMapNew
      m2 == IF IsSome(o.writable)
            THEN Insert(m1, "writable", VariantBool(Unwrap(o.writable)))
            ELSE m1
      m3 == IF f.v3 /\ IsSome(o.ask)
            THEN Insert(m2, "ask", VariantBool(Unwrap(o.ask)))
            ELSE m2
  IN  IF f.v4 /\ IsSome(o.activation_token)
      THEN Insert(m3, "activation_token",
                  VariantString(Unwrap(o.activation_token)))
      ELSE m3

openuri_open_uri(f, self, parent_window, uri, o) ==
  method_call(self, OPENURI_INTERFACE, "OpenURI",
              <<parent_window, uri, openuri_from(f, o)>>)

openuri_open_uri_result(r) == and_then_first(r)

(* Fault variant: the member name of open_uri pasted into open_file. *)
openuri_open_file_as_uri(f, self, parent_window, fd, o) ==
  method_call(self, OPENURI_INTERFACE, "OpenURI",
              <<parent_window, fd, openuri_from(f, o)>>)

openuri_open_file(f, self, parent_window, fd, o) ==
  method_call(self, OPENURI_INTERFACE, "OpenFile",
              <<parent_window, fd, openuri_from(f, o)>>)

openuri_open_file_result(r) == and_then_first(r)

openuri_open_directory(f, self, parent_window, fd, o) ==
  method_call(self, OPENURI_INTERFACE, "OpenDirectory",
              <<parent_window, fd, openuri_from(f, o)>>)

openuri_open_directory_result(r) == and_then_first(r)

openuri_version(self) == get(self, OPENURI_INTERFACE, "version")

openuri_version_result(r) == r

---------------------------------------------------------------------------
(* The record of the setter calls made on a builder. *)
NoCalls == [k \in {} |-> [first |-> FALSE, last |-> FALSE]]
Called(h, setter, v) ==
  [k \in DOMAIN h \cup {setter} |->
     IF k # setter THEN h[k]
     ELSE [first |-> IF setter \in DOMAIN h THEN h[setter].first ELSE v,
           last |-> v]]

(* The state after construction: a fresh builder, no proxy, nothing sent. *)

Init ==
  /\ features \in [v3 : BOOLEAN, v4 : BOOLEAN]
  /\ options = new
  /\ options0 = openuri_new
  /\ hist = NoCalls
  /\ map = None
  /\ map0 = None
  /\ proxy = None
  /\ supplied = None
  /\ pc = "idle"
  /\ args = None
  /\ issued = <<>>
  /\ issued0 = <<>>
  /\ inflight = <<>>
  /\ remaining = 0
  /\ reply = None
  /\ result = None
  /\ result0 = None
  /\ portal = "none"
  /\ ncalls = 0
  /\ nsent = 0

(* The caller starts a new builder, dropping the previous call's result and *)
(* with it the handle that names the portal's request object.               *)
New ==
  /\ pc # "waiting"
  /\ options' = new
  /\ options0' = openuri_new
  /\ hist' = NoCalls
  /\ map' = None
  /\ map0' = None
  /\ pc' = "idle"
  /\ args' = None
  /\ issued' = <<>>
  /\ issued0' = <<>>
  /\ reply' = None
  /\ result' = None
  /\ result0' = None
  /\ portal' = "none"
  /\ UNCHANGED <<features, proxy, supplied, inflight, remaining, ncalls,
                 nsent>>

CanSet == pc = "idle" /\ map = None

SetHandleToken(v) ==
  /\ CanSet
  /\ options' = handle_token(options, v)
  /\ options0' = openuri_handle_token(options0, v)
  /\ hist' = Called(hist, "handle_token", v)
  /\ UNCHANGED <<features, map, map0, proxy, supplied>>
  /\ UNCHANGED calling

SetWritable(v) ==
  /\ CanSet
  /\ options' = writable(options, v)
  /\ options0' = openuri_writable(options0, v)
  /\ hist' = Called(hist, "writable", v)
  /\ UNCHANGED <<features, map, map0, proxy, supplied>>
  /\ UNCHANGED calling

(* ask exists only under feature spec-v3. *)
SetAsk(v) ==
  /\ CanSet
  /\ features.v3
  /\ options' = ask(options, v)
  /\ options0' = openuri_ask(options0, v)
  /\ hist' = Called(hist, "ask", v)
  /\ UNCHANGED <<features, map, map0, proxy, supplied>>
  /\ UNCHANGED calling

(* activation_token exists only under feature spec-v4. *)
SetActivationToken(v) ==
  /\ CanSet
  /\ features.v4
  /\ options' = activation_token(options, v)
  /\ options0' = openuri_activation_token(options0, v)
  /\ hist' = Called(hist, "activation_token", v)
  /\ UNCHANGED <<features, map, map0, proxy, supplied>>
  /\ UNCHANGED calling

(* PropMap::from(options), called by the caller itself. *)
IntoPropMap ==
  /\ pc = "idle"
  /\ map = None
  /\ map' = Some(from(features, options))
  /\ map0' = Some(openuri_from(features, options0))
  /\ UNCHANGED <<features, options, options0, hist, proxy, supplied>>
  /\ UNCHANGED calling

(* new_blocking(timeout, connection); the caller constructs its proxy before *)
(* it starts on the options of the next call.                                *)
NewBlocking(timeout, connection) ==
  /\ pc = "idle"
  /\ hist = NoCalls
  /\ map = None
  /\ proxy' = Some(new_blocking(timeout, connection))
  /\ supplied' = Some([timeout |-> timeout, connection |-> connection])
  /\ UNCHANGED features
  /\ UNCHANGED builder
  /\ UNCHANGED calling

---------------------------------------------------------------------------
(* Trait method invocations.  The caller hands over its builder (the options *)
(* are moved into the call); the method issues its request and blocks.       *)

CanCall == pc = "idle" /\ map = None /\ IsSome(proxy) /\ ncalls < MaxCalls

(* The invocation puts its requests on the channel and waits. *)
Invoke(a, reqs, reqs0) ==
  /\ args' = Some(a)
  /\ issued' = reqs
  /\ issued0' = reqs0
  /\ inflight' = inflight \o reqs
  /\ remaining' = reqs[1].timeout
  /\ pc' = "waiting"
  /\ reply' = None
  /\ result' = None
  /\ result0' = None
  /\ ncalls' = ncalls + 1
  /\ nsent' = nsent + Len(reqs)
  /\ options' = new
  /\ options0' = openuri_new
  /\ hist' = NoCalls
  /\ UNCHANGED <<features, map, map0, proxy, supplied, portal>>

OpenUri(parent_window, uri) ==
  /\ CanCall
  /\ Invoke([op |-> "open_uri", proxy |-> Unwrap(proxy),
             parent_window |-> parent_window, target |-> uri,
             options |-> options],
            <<open_uri(features, Unwrap(proxy), parent_window, uri, options)>>,
            <<openuri_open_uri(features, Unwrap(proxy), parent_window, uri,
                               options0)>>)

OpenFile(parent_window, fd) ==
  /\ CanCall
  /\ Invoke([op |-> "open_file", proxy |-> Unwrap(proxy),
             parent_window |-> parent_window, target |-> fd,
             options |-> options],
            <<open_file(features, Unwrap(proxy), parent_window, fd, options)>>,
            <<openuri_open_file(features, Unwrap(proxy), parent_window, fd,
                                options0)>>)

OpenDirectory(parent_window, fd) ==
  /\ CanCall
  /\ Invoke([op |-> "open_directory", proxy |-> Unwrap(proxy),
             parent_window |-> parent_window, target |-> fd,
             options |-> options],
            <<open_directory(features, Unwrap(proxy), parent_window, fd,
                             options)>>,
            <<openuri_open_directory(features, Unwrap(proxy), parent_window,
                                     fd, options0)>>)

(* version takes no options: the caller invokes it with a fresh builder. *)
Version ==
  /\ CanCall
  /\ hist = NoCalls
  /\ Invoke([op |-> "version", proxy |-> Unwrap(proxy)],
            <<version(Unwrap(proxy))>>,
            <<openuri_version(Unwrap(proxy))>>)

(* What the invoked method makes of the transport's result r. *)
Returned(op, r) ==
  CASE op = "open_uri" -> open_uri_result(r)
    [] op = "open_file" -> open_file_result(r)
    [] op = "open_directory" -> open_directory_result(r)
    [] op = "version" -> version_result(r)

Returned0(op, r) ==
  CASE op = "open_uri" -> openuri_open_uri_result(r)
    [] op = "open_file" -> openuri_open_file_result(r)
    [] op = "open_directory" -> openuri_open_directory_result(r)
    [] op = "version" -> openuri_version_result(r)

(* The transport answers the request at the head of the channel with r and *)
(* the blocked method returns.                                              *)
Deliver(r) ==
  /\ reply' = Some(r)
  /\ result' = Some(Returned(Unwrap(args).op, r))
  /\ result0' = Some(Returned0(Unwrap(args).op, r))
  /\ inflight' = Tail(inflight)
  /\ remaining' = 0
  /\ pc' = "returned"
  /\ UNCHANGED <<features, proxy, supplied, args, issued, issued0, ncalls,
                 nsent>>
  /\ UNCHANGED builder

Waiting == pc = "waiting" /\ inflight # <<>>

(* The portal registers the request and replies with its handle. *)
ReplyHandle(p) ==
  /\ Waiting
  /\ remaining > 0
  /\ Head(inflight).kind = "method_call"
  /\ Deliver(Ok(<<p>>))
  /\ portal' = "registered"

(* The portal answers a property read. *)
ReplyProperty(v) ==
  /\ Waiting
  /\ remaining > 0
  /\ Head(inflight).kind = "get"
  /\ Deliver(Ok(v))
  /\ UNCHANGED portal

(* The transport fails the request: connection closed, reply of the wrong *)
(* shape, or an error named by the remote side.                           *)
TransportError(e) ==
  /\ Waiting
  /\ Deliver(Err(e))
  /\ UNCHANGED portal

(* Time passes while the request is outstanding. *)
Tick ==
  /\ Waiting
  /\ remaining > 0
  /\ remaining' = remaining - 1
  /\ UNCHANGED <<features, proxy, supplied, pc, args, issued, issued0,
                 inflight, reply, result, result0, portal, ncalls, nsent>>
  /\ UNCHANGED builder

(* The request's timeout has elapsed without a reply. *)
TransportTimeout ==
  /\ Waiting
  /\ remaining = 0
  /\ Deliver(Err(TimeoutError))
  /\ UNCHANGED portal

(* The portal later completes the request and emits its Response signal. *)
PortalResponse ==
  /\ portal = "registered"
  /\ portal' = "completed"
  /\ UNCHANGED <<features, proxy, supplied, pc, args, issued, issued0,
                 inflight, remaining, reply, result, result0, ncalls, nsent>>
  /\ UNCHANGED builder

Next ==
  \/ New
  \/ \E v \in Tokens : SetHandleToken(v)
  \/ \E v \in BOOLEAN : SetWritable(v)
  \/ \E v \in BOOLEAN : SetAsk(v)
  \/ \E v \in Tokens : SetActivationToken(v)
  \/ IntoPropMap
  \/ \E t \in Timeouts, c \in Connections : NewBlocking(t, c)
  \/ \E w \in ParentWindows, u \in Uris : OpenUri(w, u)
  \/ \E w \in ParentWindows, fd \in Fds : OpenFile(w, fd)
  \/ \E w \in ParentWindows, fd \in Fds : OpenDirectory(w, fd)
  \/ Version
  \/ \E p \in Paths : ReplyHandle(p)
  \/ \E v \in Versions : ReplyProperty(v)
  \/ \E e \in Errors \ {TimeoutError} : TransportError(e)
  \/ Tick
  \/ TransportTimeout
  \/ PortalResponse

Spec == Init /\ [][Next]_vars

(* The transport's clock runs and its timeout fires; nothing obliges the *)
(* portal to reply.                                                      *)
FairSpec == Spec /\ WF_vars(Tick) /\ WF_vars(TransportTimeout)

---------------------------------------------------------------------------
(* Vocabulary of the properties. *)

Fields == {"handle_token", "writable", "ask", "activation_token"}
StringFields == {"handle_token", "activation_token"}

(* The map a reader of the setter calls h would write by hand: for each *)
(* setter called, its key with the last argument in its native type.    *)
Reference(h) ==
  [k \in DOMAIN h |->
     IF k \in StringFields THEN [sig |-> "s", v |-> h[k].last]
     ELSE [sig |-> "b", v |-> h[k].last]]

(* The setters a build configuration offers, and their arguments. *)
Available(f) ==
  {"handle_token", "writable"} \cup (IF f.v3 THEN {"ask"} ELSE {})
    \cup (IF f.v4 THEN {"activation_token"} ELSE {})
SetterArgs(k) == IF k \in StringFields THEN Tokens ELSE BOOLEAN
Apply(o, k, v) ==
  CASE k = "handle_token" -> handle_token(o, v)
    [] k = "writable" -> writable(o, v)
    [] k = "ask" -> ask(o, v)
    [] k = "activation_token" -> activation_token(o, v)

Invoked == IsSome(args)
TheArgs == Unwrap(args)
IsOpen == TheArgs.op \in {"open_uri", "open_file", "open_directory"}
MemberOf(op) ==
  CASE op = "open_uri" -> "OpenURI"
    [] op = "open_file" -> "OpenFile"
    [] op = "open_directory" -> "OpenDirectory"
    [] op = "version" -> "version"

---------------------------------------------------------------------------
(* C1: the PropMap converted from a builder holds the key of a field if and *)
(* only if that field's setter was called at least once since new(), holds  *)
(* no key other than the four field names, and is the empty map when no     *)
(* setter was called.                                                       *)
C1_KeysMirrorSetters ==
  IsSome(map) =>
    /\ DOMAIN Unwrap(map) = DOMAIN hist
    /\ DOMAIN Unwrap(map) \subseteq Fields
    /\ (hist = NoCalls => Unwrap(map) = PropMapNew)

C1_Witness ==
  /\ IsSome(map)
  /\ DOMAIN hist = {"handle_token", "ask"}
  /\ DOMAIN Unwrap(map) = {"handle_token", "ask"}

(* C4: a later call of a setter overwrites an earlier one: the value stored *)
(* for a field, and the value under its key in the converted PropMap, is    *)
(* the argument of the last call of that field's setter.                    *)
C4_LastCallWins ==
  \A k \in DOMAIN hist :
    /\ options[k] = Some(hist[k].last)
    /\ IsSome(map) => (k \in DOMAIN Unwrap(map)
                         /\ Unwrap(map)[k].v = hist[k].last)

C4_Witness ==
  /\ IsSome(map)
  /\ "ask" \in DOMAIN hist
  /\ hist["ask"].first = TRUE
  /\ hist["ask"].last = FALSE
  /\ Unwrap(map)["ask"].v = FALSE

(* C5: for every combination of set and unset options and every choice of *)
(* values, the converted PropMap equals, field for field, the reference    *)
(* map written by hand: each set option's key mapped to the given value in *)
(* its native type (string or boolean).                                    *)
C5_EqualsReference == IsSome(map) => Unwrap(map) = Reference(hist)

C5_Witness ==
  /\ IsSome(map)
  /\ DOMAIN hist = Fields
  /\ Unwrap(map)["handle_token"] = [sig |-> "s", v |-> "t2"]
  /\ Unwrap(map)["writable"] = [sig |-> "b", v |-> TRUE]

(* C10: a setter changes only its own field, so a step that calls no setter *)
(* of field k leaves field k as it was; setters of different fields commute *)
(* and the converted map does not depend on their order.                    *)
Untouched(k) ==
  \/ k \notin DOMAIN hist /\ k \notin DOMAIN hist'
  \/ k \in DOMAIN hist /\ k \in DOMAIN hist' /\ hist'[k] = hist[k]

Commute ==
  \A k1 \in Available(features), k2 \in Available(features) :
    k1 # k2 =>
      \A v1 \in SetterArgs(k1), v2 \in SetterArgs(k2) :
        /\ Apply(Apply(options, k1, v1), k2, v2)
             = Apply(Apply(options, k2, v2), k1, v1)
        /\ from(features, Apply(Apply(options, k1, v1), k2, v2))
             = from(features, Apply(Apply(options, k2, v2), k1, v1))

C10_SettersFrame ==
  /\ [][\A k \in Fields : Untouched(k) => options'[k] = options[k]]_vars
  /\ [](pc = "idle" => Commute)

C10_Witness ==
  /\ pc = "idle"
  /\ DOMAIN hist = {"ask", "writable"}
  /\ options.ask = Some(TRUE)
  /\ options.writable = Some(FALSE)
  /\ options.handle_token = None

---------------------------------------------------------------------------
(* C2: each of open_uri, open_file and open_directory issues exactly one   *)
(* method call, on interface org.freedesktop.portal.OpenURI, with its own  *)
(* member name and with the caller's parent_window, uri or fd and the map  *)
(* converted from the caller's options as given; version issues exactly    *)
(* one property read of "version" and no method call.  Nothing is checked  *)
(* or rewritten on the client side, a file:// uri and an empty             *)
(* parent_window included.                                                 *)
C2_OneRequestAsGiven ==
  /\ nsent = ncalls
  /\ Invoked =>
       /\ Len(issued) = 1
       /\ issued[1].interface = "org.freedesktop.portal.OpenURI"
       /\ issued[1].member = MemberOf(TheArgs.op)
       /\ IsOpen =>
            /\ issued[1].kind = "method_call"
            /\ issued[1].args = <<TheArgs.parent_window, TheArgs.target,
                                  from(features, TheArgs.options)>>
       /\ TheArgs.op = "version" =>
            /\ issued[1].kind = "get"
            /\ \A i \in 1 .. Len(issued) : issued[i].kind # "method_call"

C2_Witness ==
  /\ Invoked
  /\ TheArgs.op = "open_uri"
  /\ TheArgs.parent_window = ""
  /\ TheArgs.target = "file:///etc/hosts"
  /\ issued[1].args[1] = ""
  /\ issued[1].args[2] = "file:///etc/hosts"
  /\ DOMAIN issued[1].args[3] = {"writable"}

(* C3: when the transport fails the request with error e, the method       *)
(* returns Err(PortalError::Dbus(e)) with that same e, returns at once,    *)
(* and has issued exactly one request: no retry, no second request, no     *)
(* failure turned into a success.                                          *)
C3_ErrorWrappedOnce ==
  (IsSome(reply) /\ IsErr(Unwrap(reply))) =>
    /\ pc = "returned"
    /\ result = Some(Err(PortalErrorDbus(Unwrap(reply).error)))
    /\ Len(issued) = 1
    /\ inflight = <<>>
    /\ nsent = ncalls

C3_Witness ==
  /\ pc = "returned"
  /\ TheArgs.op = "version"
  /\ reply = Some(Err("org.freedesktop.DBus.Error.Disconnected"))
  /\ result = Some(Err([variant |-> "Dbus",
                        source |-> "org.freedesktop.DBus.Error.Disconnected"]))

(* C6: when the transport replies to the single request with an object path *)
(* p, the method returns Ok(p) with exactly that path (version: Ok(v) with  *)
(* the u32 read); it has returned as soon as the reply is in, while the     *)
(* portal's request object is still to complete, and it issued no further   *)
(* request to wait for that completion.                                     *)
C6_ReplyReturnedAtOnce ==
  /\ (IsSome(reply) /\ IsOk(Unwrap(reply))) =>
       /\ pc = "returned"
       /\ Len(issued) = 1
       /\ inflight = <<>>
       /\ IsOpen => result = Some(Ok(Unwrap(reply).value[1]))
       /\ TheArgs.op = "version" => result = Some(Ok(Unwrap(reply).value))
  /\ portal = "registered" => (pc = "returned" /\ IsOk(Unwrap(result)))

C6_Witness ==
  /\ pc = "returned"
  /\ TheArgs.op = "open_uri"
  /\ TheArgs.parent_window = ""
  /\ TheArgs.options = ask(new, TRUE)
  /\ portal = "registered"
  /\ result = Some(Ok("/org/freedesktop/portal/desktop/request/1_42/t1"))

(* C7: every invocation returns: with a timeout of zero, or when no reply  *)
(* ever arrives, it returns Err with the transport's error rather than     *)
(* block for ever; when the caller's timeout elapses first the result is   *)
(* the transport's timeout error wrapped in PortalError.  The one place an *)
(* invocation waits is the reply to its single request.                    *)
TimesOutAsSupplied ==
  pc = "returned" =>
    /\ Unwrap(supplied).timeout = 0 => IsErr(Unwrap(result))
    /\ reply = Some(Err(TimeoutError)) =>
         result = Some(Err(PortalErrorDbus(TimeoutError)))
    /\ Len(issued) = 1

WaitsWithinTimeout ==
  pc = "waiting" =>
    /\ Len(issued) = 1
    /\ inflight = issued
    /\ remaining <= Unwrap(supplied).timeout

C7_AlwaysReturns ==
  /\ (pc = "waiting") ~> (pc = "returned")
  /\ [](TimesOutAsSupplied /\ WaitsWithinTimeout)

C7_Witness ==
  /\ pc = "returned"
  /\ TheArgs.op = "open_directory"
  /\ Unwrap(supplied).timeout = 0
  /\ result = Some(Err(PortalErrorDbus(TimeoutError)))

(* C8: new_blocking sends nothing: until the first trait method is invoked *)
(* no request has been sent, however many proxies were constructed; every  *)
(* request issued through the proxy goes to bus name                       *)
(* org.freedesktop.portal.Desktop, object path                             *)
(* /org/freedesktop/portal/desktop, over the connection and with the       *)
(* timeout the caller supplied.                                            *)
C8_ConstructionSendsNothing ==
  /\ ncalls = 0 => (nsent = 0 /\ inflight = <<>> /\ issued = <<>>)
  /\ \A i \in 1 .. Len(issued) :
       /\ issued[i].destination = "org.freedesktop.portal.Desktop"
       /\ issued[i].path = "/org/freedesktop/portal/desktop"
       /\ issued[i].connection = Unwrap(supplied).connection
       /\ issued[i].timeout = Unwrap(supplied).timeout
  /\ IsSome(proxy) =>
       /\ Unwrap(proxy).connection = Unwrap(supplied).connection
       /\ Unwrap(proxy).timeout = Unwrap(supplied).timeout

C8_Witness ==
  /\ pc = "waiting"
  /\ ncalls = 1
  /\ nsent = 1
  /\ Unwrap(supplied) = [timeout |-> MaxTimeout, connection |-> "private"]
  /\ inflight[1].connection = "private"
  /\ inflight[1].timeout = MaxTimeout

(* C9: the revisions of open_uri.rs and openuri.rs agree up to the wrapping *)
(* of errors: same conversion of the options, same request for the same    *)
(* invocation, same Ok value, and Err(PortalError::Dbus(e)) in the one     *)
(* exactly when Err(e) in the other.                                       *)
C9_RevisionsAgree ==
  /\ options = options0
  /\ map = map0
  /\ issued = issued0
  /\ IsSome(result) <=> IsSome(result0)
  /\ IsSome(result) =>
       /\ IsOk(Unwrap(result)) <=> IsOk(Unwrap(result0))
       /\ IsOk(Unwrap(result)) => Unwrap(result) = Unwrap(result0)
       /\ IsErr(Unwrap(result)) =>
            Unwrap(result).error = PortalErrorDbus(Unwrap(result0).error)

C9_Witness ==
  /\ pc = "returned"
  /\ TheArgs.op = "open_file"
  /\ issued0[1].member = "OpenFile"
  /\ result0 = Some(Err("org.freedesktop.portal.Error.NotAllowed"))
  /\ result = Some(Err(PortalErrorDbus("org.freedesktop.portal.Error.NotAllowed")))

====
